---- MODULE Spec2Model ----
(***************************************************************************)
(* django-revisions: the versioned model layer (revisions/models.py) and   *)
(* the admin's save and diff view over it (revisions/admin.py).            *)
(*                                                                         *)
(* One concrete model class is modelled, declared as                       *)
(*     class Story(TrashableModel, VersionedModel)                         *)
(* so that Story.delete is TrashableModel.delete and the super() call of   *)
(* delete_permanently reaches VersionedModelBase.delete.  The class has    *)
(* one domain field, title.  Its table is db; the instance a method is     *)
(* called on is an input of the call: a new instance, or a revision loaded *)
(* from the table and possibly edited.                                     *)
(*                                                                         *)
(* vdatetime (auto_now) is written by every save and read only where the   *)
(* Versioning class names it, as comparator or as publication date; where  *)
(* nothing reads it the rows hold 0 for it and the clock is not followed.  *)
(***************************************************************************)
EXTENDS Integers, FiniteSets, Sequences, TLC

\* Bounds of the model.
MaxVid == 3      \* rows ever inserted (values the AutoField hands out)
MaxCid == 2      \* bundle ids ever generated by uuid4
MaxClock == 1    \* readings of the clock behind auto_now

\* Python's None, for a primary key or a cid that is not set.
None == 0

\* Values of the domain field.
Titles == {"a", "b"}

VARIABLES
    Versioning,  \* the model's inner class Versioning (fixed per behaviour)
    db,          \* the table: a set of rows
    nextVid,     \* the AutoField sequence of vid
    nextCid,     \* the next fresh uuid4
    now,         \* the clock read by auto_now
    last         \* the last call: operation, exception raised, self.pk

vars == <<Versioning, db, nextVid, nextCid, now, last>>

----------------------------------------------------------------------------
\* Rows and instances.

\* A fresh in-memory instance of a row (objects.get / queryset iteration).
Instance(r) ==
    [pk |-> r.vid, cid |-> r.cid, title |-> r.title, is_trash |-> r.is_trash]

\* Story(title=t, cid=c): an instance that was never saved.
NewInstance(t, c) ==
    [pk |-> None, cid |-> c, title |-> t, is_trash |-> FALSE]

\* The world an operation runs in and hands back.
World == [db |-> db, nextVid |-> nextVid, nextCid |-> nextCid, now |-> now]

\* get_comparator_name: Versioning.comparator when declared, else the pk name.
get_comparator_name ==
    IF Versioning.comparator # "None" THEN Versioning.comparator ELSE "vid"

\* The comparator of a row r.
comparator(r) ==
    IF get_comparator_name = "vid" THEN r.vid ELSE r.vdatetime

\* Whether some code reads vdatetime under this Versioning.
StampRead ==
    Versioning.comparator = "vdatetime" \/ Versioning.publication_date = "vdatetime"

\* DateTimeField(auto_now=True): the value a save writes.
auto_now(w) == IF StampRead THEN w.now ELSE 0

\* The rows of the content bundle cid: objects.filter(cid=cid).
Bundle(store, cid) == {r \in store : r.cid = cid}

\* All orders in which the elements of S can be listed.
SeqsOf(S) ==
    {s \in [1..Cardinality(S) -> S] :
        \A i, j \in 1..Cardinality(S) : i # j => s[i] # s[j]}

\* order_by(comparator_name): every listing the database may return, rows of
\* equal comparator in any order.
order_by(S) ==
    {s \in SeqsOf(S) :
        \A i \in 1..(Cardinality(S) - 1) : comparator(s[i]) <= comparator(s[i + 1])}

\* LatestManager, the default manager: the latest revision of each bundle.
LatestManager(store) ==
    {r \in store : \A q \in Bundle(store, r.cid) : comparator(q) <= comparator(r)}

----------------------------------------------------------------------------
\* Validation.

\* _get_unique_checks: the field tuples checked, Versioning.unique first.
\* (The pk's own unique check is skipped by Django for an instance without pk
\* and for one that is not being added.)
_get_unique_checks ==
    IF Versioning.unique THEN {"title"} ELSE {}

\* Model.validate_unique over _get_unique_checks: a row of the default manager
\* other than the instance's own carries the same value.
validate_unique(store, inst) ==
    \E f \in _get_unique_checks :
        \E r \in LatestManager(store) :
            /\ r.title = inst.title
            /\ (inst.pk = None \/ r.vid # inst.pk)

\* validate_bundle without the translation of the ValidationError.
validate_bundle_Unconverted(store, inst) ==
    IF Versioning.unique /\ validate_unique(store, inst)
    THEN "ValidationError"
    ELSE "none"

\* validate_bundle: the exception raised, "none" when it returns.
validate_bundle(store, inst) ==
    IF Versioning.unique /\ validate_unique(store, inst)
    THEN "IntegrityError"
    ELSE "none"

----------------------------------------------------------------------------
\* Writes.

\* models.Model.save: UPDATE the row of inst.pk, or INSERT (with a vid from
\* the AutoField when inst.pk is None); auto_now stamps vdatetime.
Model_save(w, inst) ==
    LET pk == IF inst.pk = None THEN w.nextVid ELSE inst.pk
        row == [vid |-> pk, cid |-> inst.cid, title |-> inst.title,
                vdatetime |-> auto_now(w), is_trash |-> inst.is_trash]
    IN  [w |-> [w EXCEPT !.db = {r \in w.db : r.vid # pk} \cup {row},
                         !.nextVid = IF inst.pk = None THEN @ + 1 ELSE @],
         inst |-> [inst EXCEPT !.pk = pk],
         err |-> "none",
         ret |-> pk]

\* save without the uuid: the row is written with the cid the instance has.
save_NoCid(w, inst) ==
    LET e == validate_bundle(w.db, inst)
    IN  IF e # "none"
        THEN [w |-> w, inst |-> inst, err |-> e, ret |-> None]
        ELSE Model_save(w, inst)

\* VersionedModelBase.save.
save(w, inst) ==
    LET fresh == inst.cid = None
        i1 == IF fresh THEN [inst EXCEPT !.cid = w.nextCid] ELSE inst
        w1 == IF fresh THEN [w EXCEPT !.nextCid = @ + 1] ELSE w
        e  == validate_bundle(w1.db, i1)
    IN  IF e # "none"
        THEN [w |-> w1, inst |-> i1, err |-> e, ret |-> None]
        ELSE Model_save(w1, i1)

\* ClonableMixin.clone: a new row copying every field but the primary key,
\* with a fresh comparator: the next vid, and a vdatetime that is a reading of
\* the clock later than every stamp of the bundle when vdatetime is the
\* comparator.
clone(w, inst) ==
    LET stamps == {r.vdatetime : r \in Bundle(w.db, inst.cid)}
        t == IF get_comparator_name = "vid" \/ \A s \in stamps : s < w.now
             THEN auto_now(w)
             ELSE 1 + CHOOSE s \in stamps : \A u \in stamps : u <= s
        row == [vid |-> w.nextVid, cid |-> inst.cid, title |-> inst.title,
                vdatetime |-> t, is_trash |-> inst.is_trash]
    IN  [w |-> [w EXCEPT !.db = @ \cup {row}, !.nextVid = @ + 1,
                         !.now = IF StampRead THEN t ELSE @],
         inst |-> inst,
         err |-> "none",
         ret |-> w.nextVid]

\* revise that saves in every case, never cloning.
revise_SaveInPlace(w, inst) ==
    LET e == validate_bundle(w.db, inst)
    IN  IF e # "none"
        THEN [w |-> w, inst |-> inst, err |-> e, ret |-> None]
        ELSE save(w, inst)

\* VersionedModelBase.revise.
revise(w, inst) ==
    LET e == validate_bundle(w.db, inst)
    IN  IF e # "none"
        THEN [w |-> w, inst |-> inst, err |-> e, ret |-> None]
        ELSE IF inst.pk = None
             THEN save(w, inst)
             ELSE clone(w, inst)

\* RevisionForm.clean: the instance bound to the form gets is_small_change,
\* the value of the form's checkbox.
RevisionForm_clean(inst, small_change) ==
    [pk |-> inst.pk, cid |-> inst.cid, title |-> inst.title,
     is_trash |-> inst.is_trash, is_small_change |-> small_change]

\* VersionedAdminMixin.save_model: obj.revise().
save_model(w, obj) == revise(w, obj)

----------------------------------------------------------------------------
\* Selectors.

\* The decimal strings of the primary keys, and int() of one.
StrDigits == <<"1", "2", "3", "4", "5", "6", "7", "8", "9">>

int(s) == CHOOSE n \in DOMAIN StrDigits : StrDigits[n] = s

NoEnt == NewInstance("a", None)

Crit(k, n, s, e) == [kind |-> k, n |-> n, s |-> s, ent |-> e]

NoCrit == Crit("-", 0, "", NoEnt)

\* The selectors a caller passes to revert_to: an int, an entity (a loaded
\* revision, possibly edited), a date, anything else.
RevertCriteria(store) ==
    {Crit("int", n, "", NoEnt) : n \in 1..MaxVid}
    \cup {Crit("entity", 0, "", [Instance(r) EXCEPT !.title = t]) :
            r \in store, t \in Titles}
    \cup {Crit("date", MaxClock, "", NoEnt)}
    \cup {Crit("other", 0, "", NoEnt)}

\* The selectors a caller passes to fetch: those, and a str, a unicode string
\* and every date.
Criteria(store) ==
    RevertCriteria(store)
    \cup {Crit("str", 0, StrDigits[r.vid], NoEnt) : r \in store}
    \cup {Crit("unicode", 0, StrDigits[1], NoEnt)}
    \cup {Crit("date", d, "", NoEnt) : d \in 0..MaxClock}

\* VersionedModelBase.fetch: the exception raised and the instance returned.
fetch(store, c) ==
    IF c.kind \in {"int", "str"}
    THEN LET pk == IF c.kind = "int" THEN c.n ELSE int(c.s)
         IN  IF \E r \in store : r.vid = pk
             THEN [err |-> "none",
                   inst |-> Instance(CHOOSE r \in store : r.vid = pk)]
             ELSE [err |-> "DoesNotExist", inst |-> NoEnt]
    ELSE IF c.kind = "entity"
    THEN [err |-> "none", inst |-> c.ent]
    ELSE IF c.kind = "date"
    THEN IF Versioning.publication_date # "None"
         THEN [err |-> "AttributeError", inst |-> NoEnt]  \* QuerySet has no .order
         ELSE [err |-> "ImproperlyConfigured", inst |-> NoEnt]
    ELSE [err |-> "TypeError", inst |-> NoEnt]

\* revert_to that revises self instead of the revision fetched.
revert_to_Self(w, self, c) ==
    LET f == fetch(w.db, c)
    IN  IF f.err # "none"
        THEN [w |-> w, inst |-> f.inst, err |-> f.err, ret |-> None]
        ELSE IF f.inst.pk \notin {r.vid : r \in Bundle(w.db, self.cid)}
             THEN [w |-> w, inst |-> f.inst, err |-> "IndexError", ret |-> None]
             ELSE revise(w, self)

\* revert_to without the check that the revision belongs to the bundle.
revert_to_NoCheck(w, self, c) ==
    LET f == fetch(w.db, c)
    IN  IF f.err # "none"
        THEN [w |-> w, inst |-> f.inst, err |-> f.err, ret |-> None]
        ELSE revise(w, f.inst)

\* VersionedModelBase.revert_to.
revert_to(w, self, c) ==
    LET f == fetch(w.db, c)
    IN  IF f.err # "none"
        THEN [w |-> w, inst |-> f.inst, err |-> f.err, ret |-> None]
        ELSE IF f.inst.pk \notin {r.vid : r \in Bundle(w.db, self.cid)}
             THEN [w |-> w, inst |-> f.inst, err |-> "IndexError", ret |-> None]
             ELSE revise(w, f.inst)

----------------------------------------------------------------------------
\* Traversal.

\* get_revisions whose prev is taken from the ascending listing: the first
\* revision below instead of the nearest.
get_revisions_PrevAscending(store, cid, cmp) ==
    LET B == Bundle(store, cid)
        below == {r \in B : comparator(r) < cmp}
        above == {r \in B : comparator(r) > cmp}
        prevs == IF below = {} THEN {None}
                 ELSE {r.vid : r \in {x \in below :
                          \A y \in below : comparator(x) <= comparator(y)}}
        nexts == IF above = {} THEN {None}
                 ELSE {r.vid : r \in {x \in above :
                          \A y \in above : comparator(x) <= comparator(y)}}
    IN  {[qs |-> s, prev |-> p, next |-> n] :
            s \in order_by(B), p \in prevs, n \in nexts}

\* get_revisions: the results it can return for an instance of cid whose
\* comparator is cmp: the ordered listing, prev and next (None at a boundary).
get_revisions(store, cid, cmp) ==
    LET B == Bundle(store, cid)
        below == {r \in B : comparator(r) < cmp}
        above == {r \in B : comparator(r) > cmp}
        prevs == IF below = {} THEN {None}
                 ELSE {r.vid : r \in {x \in below :
                          \A y \in below : comparator(y) <= comparator(x)}}
        nexts == IF above = {} THEN {None}
                 ELSE {r.vid : r \in {x \in above :
                          \A y \in above : comparator(x) <= comparator(y)}}
    IN  {[qs |-> s, prev |-> p, next |-> n] :
            s \in order_by(B), p \in prevs, n \in nexts}

\* get_latest_revision: order_by('-' + comparator_name)[0], the rows it can
\* return (none: IndexError).
get_latest_revision(store, cid) ==
    {r \in Bundle(store, cid) :
        \A q \in Bundle(store, cid) : comparator(q) <= comparator(r)}

\* check_if_latest_revision of an instance of cid whose comparator is cmp:
\* cmp >= max of the comparators of get_revisions() (a non-empty bundle).
check_if_latest_revision(store, cid, cmp) ==
    \A q \in Bundle(store, cid) : comparator(q) <= cmp

\* make_current_revision on an instance whose comparator is cmp: save()
\* unless check_if_latest_revision().
make_current_revision(w, self, cmp) ==
    IF ~check_if_latest_revision(w.db, self.cid, cmp)
    THEN save(w, self)
    ELSE [w |-> w, inst |-> self, err |-> "none", ret |-> None]

----------------------------------------------------------------------------
\* Diffs.

\* Story._meta.fields in order of declaration, and the fields the admin's
\* diff view skips.
_meta_fields == <<"cid", "vid", "vdatetime", "vuser", "_is_trash", "title">>

diff_ignored_fields == {"vid", "vuser", "vdatetime", "cid"}

\* field.verbose_name, derived by Django from the field's name.
verbose_name(f) == IF f = "_is_trash" THEN " is trash" ELSE f

\* unicode(getattr(obj, f)) for the fields that are not ignored.
unicode_getattr(obj, f) ==
    IF f = "title" THEN obj.title
    ELSE IF obj.is_trash THEN "True" ELSE "False"

\* unicode(getattr(obj, f) or ''): a value that is false in Python gives ''.
unicode_getattr_or_empty(obj, f) ==
    IF f = "title" THEN obj.title
    ELSE IF obj.is_trash THEN "True" ELSE ""

\* diff_match_patch.diff_main on the texts of the model, which are equal,
\* empty on one side, or without a common character: the list of
\* (operation, text) with -1 a deletion, 1 an insertion, 0 an equality.
diff_main(a, b) ==
    IF a = b
    THEN IF a = "" THEN <<>> ELSE <<<<0, a>>>>
    ELSE (IF a = "" THEN <<>> ELSE <<<<-1, a>>>>)
         \o (IF b = "" THEN <<>> ELSE <<<<1, b>>>>)

\* The markup of an insertion.
ins(text) == "<ins style=\"background:#e6ffe6;\">" \o text \o "</ins>"

\* diff_match_patch.diff_prettyHtml from element i of the list.
RECURSIVE diff_prettyHtml(_, _)
diff_prettyHtml(diffs, i) ==
    IF i > Len(diffs)
    THEN ""
    ELSE (CASE diffs[i][1] = 1 -> ins(diffs[i][2])
            [] diffs[i][1] = -1 ->
                 "<del style=\"background:#ffe6e6;\">" \o diffs[i][2] \o "</del>"
            [] OTHER -> "<span>" \o diffs[i][2] \o "</span>")
         \o diff_prettyHtml(diffs, i + 1)

\* VersionedModelBase.show_diff_to(to, field) on the revision self.
show_diff_to(self, to, field) ==
    diff_prettyHtml(diff_main(unicode_getattr_or_empty(self, field),
                              unicode_getattr_or_empty(to, field)), 1)

\* A local variable of the view that no statement has assigned yet.
Unbound == "<unbound>"

\* revisions_diff_view, the loop over model._meta.fields from field i, with
\* the local fromText and the diff_list built so far; prev is what
\* obj.get_revisions().prev returns (the table does not change in the loop).
RECURSIVE diff_loop(_, _, _, _, _, _)
diff_loop(store, obj, prev, i, fromText, diff_list) ==
    IF i > Len(_meta_fields)
    THEN [err |-> "none", diff_list |-> diff_list]
    ELSE LET field == _meta_fields[i]
             toText == unicode_getattr(obj, field)
         IN  IF field \in diff_ignored_fields
             THEN diff_loop(store, obj, prev, i + 1, fromText, diff_list)
             ELSE IF prev # None
             THEN LET p == Instance(CHOOSE r \in store : r.vid = prev)
                      ft == unicode_getattr(p, field)
                  IN  diff_loop(store, obj, prev, i + 1, ft,
                          Append(diff_list,
                              [name |-> verbose_name(field),
                               diff |-> show_diff_to(p, obj, field),
                               from |-> ft,
                               to |-> toText]))
             ELSE IF fromText = Unbound
             THEN [err |-> "UnboundLocalError", diff_list |-> diff_list]
             ELSE diff_loop(store, obj, prev, i + 1, fromText,
                      Append(diff_list,
                          [name |-> verbose_name(field),
                           from |-> "",
                           to |-> toText,
                           diff |-> ins(fromText)]))

\* RevisionsHistoryVersionedAdminMixin.revisions_diff_view up to the context
\* it renders: the exception raised and the diff_list.
revisions_diff_view(store, diff_object_id, prev) ==
    IF ~\E r \in store : r.vid = diff_object_id
    THEN [err |-> "Http404", diff_list |-> <<>>]
    ELSE diff_loop(store, Instance(CHOOSE r \in store : r.vid = diff_object_id),
                   prev, 1, Unbound, <<>>)

\* What obj.get_revisions().prev can be for the row of primary key pk.
prevs(store, pk) ==
    IF ~\E r \in store : r.vid = pk
    THEN {None}
    ELSE LET r == CHOOSE q \in store : q.vid = pk
         IN  {g.prev : g \in get_revisions(store, r.cid, comparator(r))}

----------------------------------------------------------------------------
\* Trash and delete.

\* TrashableModel.delete, the loop over get_content_bundle() from element i:
\* it stops at the first save that raises.
RECURSIVE trash_loop(_, _, _)
trash_loop(w, seq, i) ==
    IF i > Len(seq)
    THEN [w |-> w, err |-> "none"]
    ELSE LET r == save(w, [Instance(seq[i]) EXCEPT !.is_trash = TRUE])
         IN  IF r.err # "none"
             THEN [w |-> r.w, err |-> r.err]
             ELSE trash_loop(r.w, seq, i + 1)

\* The soft delete that trashes one revision only, the first listed.
TrashableModel_delete_First(w, seq) ==
    IF Len(seq) = 0
    THEN [w |-> w, err |-> "none"]
    ELSE LET r == save(w, [Instance(seq[1]) EXCEPT !.is_trash = TRUE])
         IN  [w |-> r.w, err |-> r.err]

TrashableModel_delete(w, seq) == trash_loop(w, seq, 1)

\* VersionedModelBase.delete_revision: models.Model.delete of one row.
delete_revision(store, pk) == {r \in store : r.vid # pk}

\* VersionedModelBase.delete: delete_revision of every revision of the bundle.
RECURSIVE delete_loop(_, _, _)
delete_loop(store, seq, i) ==
    IF i > Len(seq)
    THEN store
    ELSE delete_loop(delete_revision(store, seq[i].vid), seq, i + 1)

\* The hard delete that deletes one revision only, the first listed.
VersionedModelBase_delete_One(store, cid) ==
    LET s == CHOOSE q \in order_by(Bundle(store, cid)) : TRUE
    IN  IF Len(s) = 0 THEN store ELSE delete_revision(store, s[1].vid)

VersionedModelBase_delete(store, cid) ==
    \* the listing's order does not change the rows left
    delete_loop(store, CHOOSE s \in order_by(Bundle(store, cid)) : TRUE, 1)

\* TrashableModel.delete_permanently: super().delete() of every element of
\* get_content_bundle(), from element i.
RECURSIVE delete_permanently(_, _, _)
delete_permanently(store, seq, i) ==
    IF i > Len(seq)
    THEN store
    ELSE delete_permanently(VersionedModelBase_delete(store, seq[i].cid), seq, i + 1)

----------------------------------------------------------------------------
\* The state machine.

\* The Versioning declarations explored: the base class's defaults, and
\* declarations that set each of comparator, unique and publication_date.
Versionings ==
    {[comparator |-> "None", unique |-> FALSE, publication_date |-> "None"],
     [comparator |-> "None", unique |-> TRUE, publication_date |-> "None"],
     [comparator |-> "vdatetime", unique |-> FALSE, publication_date |-> "vdatetime"],
     [comparator |-> "vdatetime", unique |-> TRUE, publication_date |-> "vdatetime"]}

\* The record of a call.
Call(op, err, self) == [op |-> op, err |-> err, self |-> self]

\* The instances a caller can hold: Story(title=t), Story(title=t, cid=c) for
\* the cid of a bundle, and a loaded revision with its title edited or not.
Loaded(store) == {Instance(r) : r \in store}

Instances(store) ==
    {NewInstance(t, c) : t \in Titles, c \in {None} \cup {r.cid : r \in store}}
    \cup {[i EXCEPT !.title = t] : i \in Loaded(store), t \in Titles}

\* What the bounds leave room for.
InBounds(w) ==
    /\ w.nextVid <= MaxVid + 1
    /\ w.nextCid <= MaxCid + 1
    /\ w.now <= MaxClock

Commit(w) ==
    /\ db' = w.db
    /\ nextVid' = w.nextVid
    /\ nextCid' = w.nextCid
    /\ now' = w.now

Init ==
    /\ Versioning \in Versionings
    /\ db = {}
    /\ nextVid = 1
    /\ nextCid = 1
    /\ now = 0
    /\ last = Call("init", "none", None)

\* Time passes.
Tick ==
    /\ StampRead
    /\ now < MaxClock
    /\ now' = now + 1
    /\ last' = Call("tick", "none", None)
    /\ UNCHANGED <<Versioning, db, nextVid, nextCid>>

\* self.save()
SaveOn(self) ==
    LET r == save(World, self)
    IN  /\ InBounds(r.w)
        /\ Commit(r.w)
        /\ last' = Call("save", r.err, self.pk)
        /\ UNCHANGED Versioning

Save == \E self \in Instances(db) : SaveOn(self)

\* self.revise()
ReviseOn(self) ==
    LET r == revise(World, self)
    IN  /\ InBounds(r.w)
        /\ Commit(r.w)
        /\ last' = Call("revise", r.err, self.pk)
        /\ UNCHANGED Versioning

Revise == \E self \in Instances(db) : ReviseOn(self)

\* self.revert_to(c)
RevertToOn(self, c) ==
    LET r == revert_to(World, self, c)
    IN  /\ InBounds(r.w)
        /\ Commit(r.w)
        /\ last' = Call("revert_to", r.err, self.pk)
        /\ UNCHANGED Versioning

RevertTo == \E self \in Loaded(db), c \in RevertCriteria(db) : RevertToOn(self, c)

\* Story.fetch(c)
FetchOn(c) ==
    LET f == fetch(db, c)
    IN  /\ last' = Call("fetch", f.err, None)
        /\ UNCHANGED <<Versioning, db, nextVid, nextCid, now>>

Fetch == \E c \in Criteria(db) : FetchOn(c)

\* r.get_revisions() for a revision r loaded from the table, returning g.
GetRevisionsOn(r, g) ==
    /\ g \in get_revisions(db, r.cid, comparator(r))
    /\ last' = Call("get_revisions", "none", r.vid)
    /\ UNCHANGED <<Versioning, db, nextVid, nextCid, now>>

GetRevisions ==
    \E r \in db : \E g \in get_revisions(db, r.cid, comparator(r)) :
        GetRevisionsOn(r, g)

\* self.get_latest_revision(), returning r.
GetLatestRevisionOn(self, r) ==
    /\ r \in get_latest_revision(db, self.cid)
    /\ last' = Call("get_latest_revision", "none", self.pk)
    /\ UNCHANGED <<Versioning, db, nextVid, nextCid, now>>

GetLatestRevision ==
    \E self \in Loaded(db) : \E r \in get_latest_revision(db, self.cid) :
        GetLatestRevisionOn(self, r)

\* self.delete(): TrashableModel.delete, the soft delete, get_content_bundle()
\* listing the bundle as seq.
TrashOn(self, seq) ==
    LET r == TrashableModel_delete(World, seq)
    IN  /\ seq \in order_by(Bundle(db, self.cid))
        /\ InBounds(r.w)
        /\ Commit(r.w)
        /\ last' = Call("delete", r.err, self.pk)
        /\ UNCHANGED Versioning

Trash ==
    \E self \in Loaded(db) : \E seq \in order_by(Bundle(db, self.cid)) :
        TrashOn(self, seq)

\* self.delete_permanently()
DeletePermanentlyOn(self, seq) ==
    /\ seq \in order_by(Bundle(db, self.cid))
    /\ db' = delete_permanently(db, seq, 1)
    /\ last' = Call("delete_permanently", "none", self.pk)
    /\ UNCHANGED <<Versioning, nextVid, nextCid, now>>

DeletePermanently ==
    \E self \in Loaded(db) : \E seq \in order_by(Bundle(db, self.cid)) :
        DeletePermanentlyOn(self, seq)

\* VersionedModelBase.delete(self): the hard delete of the versioned base.
DeleteOn(self) ==
    /\ db' = VersionedModelBase_delete(db, self.cid)
    /\ last' = Call("hard_delete", "none", self.pk)
    /\ UNCHANGED <<Versioning, nextVid, nextCid, now>>

Delete == \E self \in Loaded(db) : DeleteOn(self)

\* GET <pk>/revisions-history/<diff_object_id>/ : revisions_diff_view, with p
\* what get_revisions().prev returns.
DiffViewOn(diff_object_id, p) ==
    /\ p \in prevs(db, diff_object_id)
    /\ last' = Call("revisions_diff_view",
                    revisions_diff_view(db, diff_object_id, p).err,
                    diff_object_id)
    /\ UNCHANGED <<Versioning, db, nextVid, nextCid, now>>

\* The objects the admin saves: a new one of the add view, or one loaded by
\* the change view through the default manager and edited in the form.
AdminObjects(store) ==
    {NewInstance(t, None) : t \in Titles}
    \cup {[Instance(r) EXCEPT !.title = t] : r \in LatestManager(store), t \in Titles}

\* POST of the admin's add or change form with RevisionForm: clean, then
\* save_model.
AdminSaveOn(self, small_change) ==
    LET r == save_model(World, RevisionForm_clean(self, small_change))
    IN  /\ InBounds(r.w)
        /\ Commit(r.w)
        /\ last' = Call(IF small_change THEN "save_model_small_change"
                                        ELSE "save_model", r.err, self.pk)
        /\ UNCHANGED Versioning

AdminSave ==
    \E self \in AdminObjects(db), small_change \in BOOLEAN :
        AdminSaveOn(self, small_change)

DiffView ==
    \E diff_object_id \in 1..MaxVid : \E p \in prevs(db, diff_object_id) :
        DiffViewOn(diff_object_id, p)

\* self.make_current_revision() on a revision loaded from row r, its title
\* edited or not.
MakeCurrentRevisionOn(r, self) ==
    LET m == make_current_revision(World, self, comparator(r))
    IN  /\ r \in db
        /\ self.pk = r.vid /\ self.cid = r.cid
        /\ InBounds(m.w)
        /\ Commit(m.w)
        /\ last' = Call("make_current_revision", m.err, self.pk)
        /\ UNCHANGED Versioning

MakeCurrentRevision ==
    \E r \in db : \E t \in Titles :
        MakeCurrentRevisionOn(r, [Instance(r) EXCEPT !.title = t])

Next ==
    \/ Tick
    \/ Save
    \/ Revise
    \/ RevertTo
    \/ Fetch
    \/ GetRevisions
    \/ GetLatestRevision
    \/ Trash
    \/ DeletePermanently
    \/ Delete
    \/ DiffView
    \/ AdminSave
    \/ MakeCurrentRevision

Spec == Init /\ [][Next]_vars

----------------------------------------------------------------------------
\* Properties.

Vids(S) == {r.vid : r \in S}

\* The revision the selector c names is x: the row of that primary key, or
\* the entity passed.
Selects(c, x) ==
    \/ c.kind = "int" /\ x \in Loaded(db) /\ x.pk = c.n
    \/ c.kind = "str" /\ x \in Loaded(db) /\ StrDigits[x.pk] = c.s
    \/ c.kind = "entity" /\ x = c.ent

\* C1: within every bundle the comparators of the revisions are pairwise
\* distinct (hence strictly ordered), whatever comparator is configured.
C1_ComparatorsDistinct ==
    \A r, q \in db :
        (r.cid = q.cid /\ r.vid # q.vid) => comparator(r) # comparator(q)

\* The same with the default comparator only: the primary keys of a bundle
\* are pairwise distinct.
PkComparatorsDistinct ==
    Versioning.comparator = "None" => C1_ComparatorsDistinct

C3_FirstRevision ==
    [][last'.op \in {"revise", "save"} => \A self \in Instances(db) :
        /\ (last'.op = "revise" /\ self.pk = None /\ ReviseOn(self) /\ last'.err = "none") =>
              \E n \in db' :
                  /\ n \notin db
                  /\ db' = db \cup {n}
                  /\ n.cid # None
                  /\ self.cid = None => n.cid \notin {r.cid : r \in db}
                  /\ self.cid # None => n.cid = self.cid
        /\ (last'.op = "save" /\ self.cid # None /\ SaveOn(self) /\ last'.err = "none") =>
              \E n \in db' :
                  /\ n.cid = self.cid
                  /\ n.title = self.title
                  /\ IF self.pk = None THEN n.vid \notin Vids(db) ELSE n.vid = self.pk
      ]_vars

C3_Witness ==
    /\ last.op = "revise"
    /\ last.err = "none"
    /\ last.self = None
    /\ Cardinality({r.cid : r \in db}) >= 2

C5_RevertOutsideBundle ==
    [][last'.op = "revert_to" => \A self \in Loaded(db), c \in RevertCriteria(db) :
        \A x \in Loaded(db) \cup {c.ent} :
            (/\ last'.self = self.pk
             /\ Selects(c, x)
             /\ x.pk \notin Vids(Bundle(db, self.cid))
             /\ RevertToOn(self, c)) =>
                /\ last'.err = "IndexError"
                /\ db' = db
      ]_vars

C5_Witness ==
    /\ last.op = "revert_to"
    /\ last.err = "IndexError"

C7_PermanentDelete ==
    [][last'.op \in {"delete_permanently", "hard_delete"} =>
       \A self \in Loaded(db) : \A seq \in order_by(Bundle(db, self.cid)) :
        (DeletePermanentlyOn(self, seq) \/ DeleteOn(self)) =>
            /\ db' = {r \in db : r.cid # self.cid}
            /\ Bundle(db', self.cid) = {}
      ]_vars

C7_Witness ==
    /\ last.op \in {"delete_permanently", "hard_delete"}
    /\ Cardinality(db) = 1
    /\ nextVid = MaxVid + 1
    /\ last.self \notin Vids(db)

\* C8: get_revisions() of a stored revision r lists exactly the rows of r's
\* cid by ascending comparator; prev has the greatest comparator below r's and
\* next the least comparator above r's, each None when there is none.
C8_Traversal ==
    [][last'.op = "get_revisions" =>
       \A r \in db : \A g \in get_revisions(db, r.cid, comparator(r)) :
        GetRevisionsOn(r, g) =>
            LET B == Bundle(db, r.cid)
                below == {q \in B : comparator(q) < comparator(r)}
                above == {q \in B : comparator(q) > comparator(r)}
            IN  /\ DOMAIN g.qs = 1..Cardinality(B)
                /\ {g.qs[i] : i \in DOMAIN g.qs} = B
                /\ \A i, j \in DOMAIN g.qs :
                      i < j => comparator(g.qs[i]) <= comparator(g.qs[j])
                /\ IF below = {}
                   THEN g.prev = None
                   ELSE \E p \in below :
                          /\ p.vid = g.prev
                          /\ \A q \in below : comparator(q) <= comparator(p)
                /\ IF above = {}
                   THEN g.next = None
                   ELSE \E p \in above :
                          /\ p.vid = g.next
                          /\ \A q \in above : comparator(p) <= comparator(q)
      ]_vars

C8_Witness ==
    /\ last.op = "get_revisions"
    /\ \E r \in db :
          /\ r.vid = last.self
          /\ Cardinality({q \in Bundle(db, r.cid) : comparator(q) > comparator(r)}) >= 2

\* C9: with Versioning.unique declared, a save() or revise() of an instance
\* whose title is that of the latest revision of a bundle, the instance's own
\* row aside, raises IntegrityError and leaves the table as it was.
C9_UniqueValidated ==
    [][(Versioning.unique /\ last'.op \in {"save", "revise"}) =>
       \A self \in Instances(db) :
        (/\ \E r \in db :
               /\ r.title = self.title
               /\ r.vid # self.pk
               /\ \A q \in db : q.cid = r.cid => comparator(q) <= comparator(r)
         /\ (SaveOn(self) \/ ReviseOn(self))) =>
            /\ last'.err = "IntegrityError"
            /\ db' = db
      ]_vars

C9_Witness ==
    /\ last.op \in {"save", "revise"}
    /\ last.err = "IntegrityError"
    /\ last.self # None

\* C10: fetch resolves an int or str primary key to the row of that key, an
\* entity to itself, a date to the revision of greatest comparator among
\* those published on or before it when a publication-date field is
\* configured; a date without that configuration raises ImproperlyConfigured
\* and any other selector (a unicode string among them) raises TypeError.
C10_FetchResolves ==
    [][last'.op = "fetch" => \A c \in Criteria(db) :
        FetchOn(c) =>
            LET f == fetch(db, c)
                pub == {r \in db : r.vdatetime <= c.n}
            IN  /\ \A x \in Loaded(db) \cup {c.ent} :
                      Selects(c, x) => f.err = "none" /\ f.inst = x
                /\ (c.kind = "date" /\ Versioning.publication_date # "None" /\ pub # {}) =>
                      /\ f.err = "none"
                      /\ \E r \in pub :
                            /\ f.inst = Instance(r)
                            /\ \A q \in pub : comparator(q) <= comparator(r)
                /\ (c.kind = "date" /\ Versioning.publication_date = "None") =>
                      f.err = "ImproperlyConfigured"
                /\ c.kind \in {"unicode", "other"} => f.err = "TypeError"
      ]_vars

\* The part of C10 the code keeps: everything but the date with a configured
\* publication-date field.
FetchResolvesOtherwise ==
    [][last'.op = "fetch" => \A c \in Criteria(db) :
        FetchOn(c) =>
            LET f == fetch(db, c)
            IN  /\ \A x \in Loaded(db) \cup {c.ent} :
                      Selects(c, x) => f.err = "none" /\ f.inst = x
                /\ (c.kind = "date" /\ Versioning.publication_date = "None") =>
                      f.err = "ImproperlyConfigured"
                /\ c.kind \in {"unicode", "other"} => f.err = "TypeError"
      ]_vars

\* C11: the diff view of a revision that has no previous revision in its
\* bundle completes without error and yields, for every field that is not
\* ignored, an entry whose 'from' is empty, whose 'to' is the field's value
\* and whose 'diff' renders that whole value as an insertion.
C11_FirstRevisionDiff ==
    [][last'.op = "revisions_diff_view" => \A r \in db :
        (/\ last'.self = r.vid
         /\ \A q \in Bundle(db, r.cid) : comparator(q) >= comparator(r)
         /\ DiffViewOn(r.vid, None)) =>
            LET v == revisions_diff_view(db, r.vid, None)
                shown == SelectSeq(_meta_fields,
                                   LAMBDA f : f \notin diff_ignored_fields)
            IN  /\ v.err = "none"
                /\ Len(v.diff_list) = Len(shown)
                /\ \A i \in 1..Len(shown) :
                      /\ v.diff_list[i].name = verbose_name(shown[i])
                      /\ v.diff_list[i].from = ""
                      /\ v.diff_list[i].to = unicode_getattr(Instance(r), shown[i])
                      /\ v.diff_list[i].diff = ins(v.diff_list[i].to)
      ]_vars

\* The diff view of a revision that has a previous revision p: it completes,
\* and each entry has p's value as 'from', the revision's as 'to'.
DiffAgainstPrevious ==
    [][last'.op = "revisions_diff_view" => \A r, p \in db :
        (/\ last'.self = r.vid
         /\ DiffViewOn(r.vid, p.vid)) =>
            LET v == revisions_diff_view(db, r.vid, p.vid)
                shown == SelectSeq(_meta_fields,
                                   LAMBDA f : f \notin diff_ignored_fields)
            IN  /\ v.err = "none"
                /\ p.cid = r.cid
                /\ comparator(p) < comparator(r)
                /\ Len(v.diff_list) = Len(shown)
                /\ \A i \in 1..Len(shown) :
                      /\ v.diff_list[i].from = unicode_getattr(Instance(p), shown[i])
                      /\ v.diff_list[i].to = unicode_getattr(Instance(r), shown[i])
      ]_vars

\* C12: saving an edit of a persisted object through the versioned admin
\* adds a revision to the bundle, unless 'small change' is ticked on
\* RevisionForm: then the edit is saved in place, the bundle keeps its number
\* of revisions and the edited row keeps its primary key.
C12_SmallChangeInPlace ==
    [][last'.op \in {"save_model", "save_model_small_change"} =>
       \A self \in AdminObjects(db) : \A small_change \in BOOLEAN :
        (/\ self.pk # None
         /\ last'.self = self.pk
         /\ AdminSaveOn(self, small_change)
         /\ last'.err = "none") =>
            IF small_change
            THEN /\ Cardinality(Bundle(db', self.cid)) = Cardinality(Bundle(db, self.cid))
                 /\ Vids(db') = Vids(db)
                 /\ \E r \in db' : r.vid = self.pk /\ r.title = self.title
            ELSE Cardinality(Bundle(db', self.cid)) = Cardinality(Bundle(db, self.cid)) + 1
      ]_vars

\* What the admin does with or without the tick: every edit of a persisted
\* object that is saved adds one revision carrying the edit to the bundle.
AdminEditRevises ==
    [][last'.op \in {"save_model", "save_model_small_change"} =>
       \A self \in AdminObjects(db) : \A small_change \in BOOLEAN :
        (/\ self.pk # None
         /\ last'.self = self.pk
         /\ AdminSaveOn(self, small_change)
         /\ last'.err = "none") =>
            \E n \in db' :
                /\ n \notin db
                /\ db' = db \cup {n}
                /\ n.cid = self.cid
                /\ n.title = self.title
      ]_vars

\* C13: after make_current_revision() returns on a persisted revision r, r is
\* the current revision of its bundle: no revision of the bundle has a
\* comparator above r's; when r was the latest already, the table is left as
\* it was.
C13_MakeCurrent ==
    [][last'.op = "make_current_revision" => \A r \in db : \A t \in Titles :
        (/\ last'.self = r.vid
         /\ MakeCurrentRevisionOn(r, [Instance(r) EXCEPT !.title = t])
         /\ last'.err = "none") =>
            /\ \E n \in db' :
                  /\ n.vid = r.vid
                  /\ check_if_latest_revision(db', n.cid, comparator(n))
            /\ check_if_latest_revision(db, r.cid, comparator(r)) => db' = db
      ]_vars

\* What make_current_revision keeps: the table is untouched when r was the
\* latest; otherwise r's row is saved again under its primary key, which
\* makes r the latest when the comparator is the auto_now vdatetime and
\* leaves it where it was when the comparator is the primary key.
MakeCurrentSavesInPlace ==
    [][last'.op = "make_current_revision" => \A r \in db : \A t \in Titles :
        (/\ last'.self = r.vid
         /\ MakeCurrentRevisionOn(r, [Instance(r) EXCEPT !.title = t])
         /\ last'.err = "none") =>
            /\ check_if_latest_revision(db, r.cid, comparator(r)) => db' = db
            /\ Vids(db') = Vids(db)
            /\ \A q \in db : q.vid # r.vid => q \in db'
            /\ \E n \in db' :
                  /\ n.vid = r.vid
                  /\ get_comparator_name = "vdatetime" =>
                        check_if_latest_revision(db', n.cid, comparator(n))
                  /\ get_comparator_name = "vid" =>
                        (check_if_latest_revision(db', n.cid, comparator(n))
                            <=> check_if_latest_revision(db, r.cid, comparator(r)))
      ]_vars

====
